---- MODULE Spec2Model ----
(***************************************************************************)
(* The collaborative pixel canvas of cogs/pixel_war (class PixelWar):      *)
(* the in-memory canvas `pixels`, the provenance index `pixel_data`, the   *)
(* pending-write list `_batch_changes`, the periodic task                  *)
(* `bulk_insert_loop` (hydration on its first iteration, then one batch    *)
(* upsert per iteration), the unloading of the cog (`cog_unload`) and the  *)
(* table `pixels` of the database.                                         *)
(*                                                                         *)
(* The program runs on one asyncio event loop: a coroutine runs without    *)
(* interruption from one `await` to the next, so every action below is the *)
(* code between two awaits of one coroutine.                               *)
(***************************************************************************)
EXTENDS Integers, Sequences, FiniteSets, TLC

(* ------------------------------------------------------------------ *)
(* Configuration, program constants and the bounds of the model       *)
(* ------------------------------------------------------------------ *)

\* self.max_x / self.max_y: the configured canvas size.
max_x == 2
max_y == 3

\* The palette has 32 entries, numbered from 0; number 31 is pure white.
PaletteSize == 32

\* The stored colour that hydration does not paint.
BlankColor == 31

\* commands.cooldown(rate=1, per=300, type=BucketType.user) on draw_canvas.
DrawRate == 1
DrawPer == 300

\* Time stops advancing at MaxTime.
MaxTime == 301

\* The number of draws the model lets the users get accepted.
MaxDraws == 2

\* The amounts by which time advances between two operations.  The clock
\* never lands exactly DrawPer after a draw: what the framework's bucket does
\* at that instant is not decided by this repository.
TimeSteps == {200, 301}

\* The users who send commands, and the guild each one writes from.
Actors == {"a", "b"}
GuildOf(a) == IF a = "a" THEN "g1" ELSE "g2"

\* The arguments <<x, y, color>> users give to the draw command: cells
\* inside the canvas, coordinates below 0 and beyond the canvas on either
\* axis, colours of the palette, below 0 and beyond it.
DrawArgs ==
    {<<0, 0, 6>>, <<1, 0, 3>>, <<0, 0, -1>>, <<0, 0, PaletteSize>>,
     <<-1, 0, 6>>, <<max_y, 0, 6>>, <<0, max_x, 6>>}

\* The cells users inspect.
InspectArgs == {<<0, 0>>, <<1, 0>>, <<-1, 0>>}

VARIABLES
    now,            \* the wall clock (datetime.datetime.now(), time.time())
    pixels,         \* self.pixels: [row, column] -> colour of the cell
    pixel_data,     \* self.pixel_data: <<x, y>> -> ledger entry (sparse)
    batch_changes,  \* self._batch_changes: the pending-write list
    filled_in,      \* self.filled_in
    loop_pc,        \* where the bulk_insert_loop task is: "starting", in an
                    \* iteration ("fetch", "execute", "executing"), between
                    \* two ("sleeping", "backoff") or over ("stopped", "dead")
    sent,           \* the argument of the outstanding pool.execute, once encoded
    store,          \* the rows of table pixels in the database
    buckets,        \* the per-user cooldown buckets of draw_canvas
    reply,          \* what the last command answered
    last_accept,    \* history: per user, the time of the last accepted draw
    last_applied,   \* history: the batch the database applied last
    draws,          \* history: the number of accepted draws
    in_fetch,       \* history: the keys drawn while the fetch is awaited
    batch_lock,     \* self._batch_lock is held
    in_flight,      \* the number of pool.execute calls that have not returned
    stopping,       \* cog_unload has run: bulk_insert_loop.stop() was called
    hydration,      \* history: how far the last fetch of fill_in_pixels got
    view,           \* the last call of view_canvas: its arguments and what it did
    pending,        \* the accepted draws whose coroutine sleeps before line 174:
                    \* <<actor, time of the draw>>
    \* bot.py, BeepBoopFox
    msg_time,       \* the clock of message.created_at
    spam_control,   \* self.spam_control: per author, the bucket [window, tokens]
    auto_spam_count,\* self._auto_spam_count: per author, 0 when the key is absent
    blacklist,      \* self.blacklist: the ids mapped to True
    saving,         \* the authors whose add_to_blacklist (line 290) is awaited
    outcome,        \* what the last process_commands call did
    \* cogs/stats.py, Stats
    data_batch,     \* self._data_batch: the records not yet inserted
    stats_lock,     \* self._batch_lock is held
    lock_waiters,   \* the register_command calls waiting for the lock, in order
    stats_pc,       \* where the bulk_insert_loop task of Stats is
    stats_sent,     \* the argument of the outstanding pool.execute of Stats
    stats_stopping, \* Stats.cog_unload has run
    registered,     \* history: the number of register_command calls so far
    inserts,        \* history: per record, the successful inserts it was passed to
    stored          \* per record, the rows of table commands that hold it

pixelvars == <<now, pixels, pixel_data, batch_changes, filled_in, loop_pc, sent,
               store, buckets, reply, last_accept, last_applied, draws, in_fetch,
               batch_lock, in_flight, stopping, hydration, view, pending>>
botvars == <<msg_time, spam_control, auto_spam_count, blacklist, saving, outcome>>
statsvars == <<data_batch, stats_lock, lock_waiters, stats_pc, stats_sent,
               stats_stopping, registered, inserts, stored>>
vars == <<pixelvars, botvars, statsvars>>

(* ------------------------------------------------------------------ *)
(* Python and library semantics the code relies on                    *)
(* ------------------------------------------------------------------ *)

\* seq[i] on a Python sequence or a numpy axis of length n raises
\* IndexError unless -n <= i < n; an index in -n..-1 counts from the end.
ValidIndex(i, n) == -n <= i /\ i < n
PyIndex(i, n) == IF i >= 0 THEN i ELSE i + n

\* Colors[color]: the palette is a sequence of PaletteSize colours; a
\* palette entry is represented by its position in 0..31.
HasColor(color) == ValidIndex(color, PaletteSize)
Colors(color) == PyIndex(color, PaletteSize)

\* numpy.zeros([max_x, max_y, 3]): the first axis has max_x positions, the
\* second max_y.
Rows == 0 .. (max_x - 1)
Cols == 0 .. (max_y - 1)

\* self.pixels.fill(255): every cell white, the colour of palette entry 31.
BlankCanvas == [rc \in Rows \X Cols |-> BlankColor]

\* self.pixels[y, x]: whether numpy accepts the index, and the cell it
\* addresses.
HasCell(x, y) == ValidIndex(y, max_x) /\ ValidIndex(x, max_y)
CellOf(x, y) == <<PyIndex(y, max_x), PyIndex(x, max_y)>>

\* now.isoformat() and the TIMESTAMP column the database parses it into.
IsoFormat(t) == <<"iso", t>>
ParseTimestamp(s) == s[2]

\* Cooldown.update_rate_limit(current) of the command framework: a bucket
\* is [window, tokens]; the result is the bucket afterwards and whether the
\* caller is rate limited.
NewBucket == [window |-> 0, tokens |-> DrawRate]
BucketTokens(b, current) ==
    IF current > b.window + DrawPer THEN DrawRate ELSE b.tokens
BucketWindow(b, current) ==
    IF BucketTokens(b, current) = DrawRate THEN current ELSE b.window
RateLimited(b, current) == BucketTokens(b, current) = 0
UpdateRateLimitNoCharge(b, current) ==
    [window |-> BucketWindow(b, current), tokens |-> BucketTokens(b, current)]
UpdateRateLimitRestart(b, current) ==
    [window |-> current,
     tokens |-> IF RateLimited(b, current) THEN 0
                ELSE BucketTokens(b, current) - 1]
UpdateRateLimit(b, current) ==
    [window |-> BucketWindow(b, current),
     tokens |-> IF RateLimited(b, current) THEN 0
                ELSE BucketTokens(b, current) - 1]

(* ------------------------------------------------------------------ *)
(* draw_canvas                                                         *)
(* ------------------------------------------------------------------ *)

\* if 0 >= x >= self.max_x or 0 >= y >= self.max_y
OutOfRange(x, y) ==
    (0 >= x /\ x >= max_x) \/ (0 >= y /\ y >= max_y)

\* The dict appended to self._batch_changes.
BatchEntrySwapped(a, x, y, color, t) ==
    [x |-> y, y |-> x, color |-> color, painter |-> a,
     painter_guild |-> GuildOf(a), time |-> IsoFormat(t)]
BatchEntry(a, x, y, color, t) ==
    [x |-> x, y |-> y, color |-> color, painter |-> a,
     painter_guild |-> GuildOf(a), time |-> IsoFormat(t)]

\* The dict stored in self.pixel_data[x][y].
LedgerEntry(a, color, t) ==
    [color |-> color, painter |-> a, painter_guild |-> GuildOf(a), time |-> t]

\* self.pixel_data[x][y] = entry
SetLedgerAlone(pd, x, y, e) == [k \in {<<x, y>>} |-> e]
SetLedgerSwapped(pd, x, y, e) ==
    [k \in (DOMAIN pd) \cup {<<y, x>>} |-> IF k = <<y, x>> THEN e ELSE pd[k]]
SetLedger(pd, x, y, e) ==
    [k \in (DOMAIN pd) \cup {<<x, y>>} |-> IF k = <<x, y>> THEN e ELSE pd[k]]

\* The outcome of the body of draw_canvas for these arguments.
DrawOutcome(x, y, color) ==
    IF OutOfRange(x, y) THEN "OutOfBounds"
    ELSE IF ~HasColor(color) \/ ~HasCell(x, y) THEN "InvalidColor"
    ELSE "Ok"

\* Whether draw_canvas has to wait before it appends to the pending-write
\* list: it takes no lock (lines 153..170 have no await and no
\* self._batch_lock), so never.
AppendWaitsForLock == batch_lock
AppendWaits == FALSE

\* The command "draw": the cooldown of the decorator, then the body up to
\* its first await.  The framework dispatches the command only while the
\* cog is loaded.
draw_canvasTorn(a, x, y, color) ==
    /\ ~stopping
    /\ ~AppendWaits
    /\ draws < MaxDraws
    /\ buckets' = [buckets EXCEPT ![a] = UpdateRateLimit(@, now)]
    /\ IF RateLimited(buckets[a], now)
       THEN /\ reply' = "CooldownActive"
            /\ UNCHANGED <<pixels, last_accept, draws>>
       ELSE /\ reply' = DrawOutcome(x, y, color)
            /\ IF DrawOutcome(x, y, color) = "Ok"
               THEN /\ pixels' = [pixels EXCEPT ![CellOf(x, y)] = Colors(color)]
                    /\ last_accept' = [last_accept EXCEPT ![a] = now]
                    /\ draws' = draws + 1
               ELSE UNCHANGED <<pixels, last_accept, draws>>
    /\ UNCHANGED <<now, filled_in, loop_pc, sent, store, last_applied,
                   batch_lock, in_flight, stopping, hydration, view,
                   pixel_data, batch_changes, in_fetch>>
    /\ UNCHANGED pending
    /\ UNCHANGED <<botvars, statsvars>>
draw_canvas(a, x, y, color) ==
    /\ ~stopping
    /\ ~AppendWaits
    /\ draws < MaxDraws
    /\ buckets' = [buckets EXCEPT ![a] = UpdateRateLimit(@, now)]
    /\ IF RateLimited(buckets[a], now)
       THEN /\ reply' = "CooldownActive"
            /\ UNCHANGED <<pixels, pixel_data, batch_changes, last_accept, draws,
                           in_fetch, pending>>
       ELSE /\ reply' = DrawOutcome(x, y, color)
            /\ IF DrawOutcome(x, y, color) = "Ok"
               THEN /\ pixels' = [pixels EXCEPT ![CellOf(x, y)] = Colors(color)]
                    /\ batch_changes' =
                           Append(batch_changes, BatchEntry(a, x, y, color, now))
                    /\ pixel_data' =
                           SetLedger(pixel_data, x, y, LedgerEntry(a, color, now))
                    /\ last_accept' = [last_accept EXCEPT ![a] = now]
                    /\ draws' = draws + 1
                    /\ pending' = pending \cup {<<a, now>>}
                    /\ in_fetch' = IF loop_pc = "fetch"
                                   THEN in_fetch \cup {<<x, y>>} ELSE in_fetch
               ELSE UNCHANGED <<pixels, pixel_data, batch_changes, last_accept,
                                draws, in_fetch, pending>>
    /\ UNCHANGED <<now, filled_in, loop_pc, sent, store, last_applied,
                   batch_lock, in_flight, stopping, hydration>>
    /\ UNCHANGED view
    /\ UNCHANGED <<botvars, statsvars>>

\* The end of an accepted draw (lines 172..174): after the answer the
\* coroutine renders the window, sleeps 300 s and tells the author that the
\* next stroke is ready.  The sleep begins no earlier than the draw, so the
\* message goes out at some time from 300 s after the draw on.
draw_canvas_ready(a, t) ==
    /\ <<a, t>> \in pending
    /\ now >= t + DrawPer
    /\ pending' = pending \ {<<a, t>>}
    /\ reply' = "Ready"
    /\ UNCHANGED <<now, pixels, pixel_data, batch_changes, filled_in, loop_pc,
                   sent, store, buckets, last_accept, last_applied, draws,
                   in_fetch, batch_lock, in_flight, stopping, hydration, view>>
    /\ UNCHANGED <<botvars, statsvars>>

(* ------------------------------------------------------------------ *)
(* check_pixel                                                         *)
(* ------------------------------------------------------------------ *)

\* What check_pixel reports for (x, y): <<entry>>, or <<>> for "nobody has
\* drawn here yet".
Inspect(pd, x, y) == IF <<x, y>> \in DOMAIN pd THEN <<pd[<<x, y>>]>> ELSE <<>>

\* The command "inspect", dispatched while the cog is loaded.
check_pixel(x, y) ==
    /\ ~stopping
    /\ reply' = IF Inspect(pixel_data, x, y) = <<>> THEN "Absent" ELSE "Found"
    /\ UNCHANGED <<now, pixels, pixel_data, batch_changes, filled_in, loop_pc,
                   sent, store, buckets, last_accept, last_applied, draws, in_fetch,
                   batch_lock, in_flight, stopping, hydration>>
    /\ UNCHANGED view
    /\ UNCHANGED pending
    /\ UNCHANGED <<botvars, statsvars>>

\* Time passes.
Advance(d) ==
    /\ now + d <= MaxTime
    /\ now' = now + d
    /\ UNCHANGED <<pixels, pixel_data, batch_changes, filled_in, loop_pc, sent,
                   store, buckets, reply, last_accept, last_applied, draws, in_fetch,
                   batch_lock, in_flight, stopping, hydration>>
    /\ UNCHANGED view
    /\ UNCHANGED pending
    /\ UNCHANGED <<botvars, statsvars>>

(* ------------------------------------------------------------------ *)
(* The table pixels and the two statements the program runs on it     *)
(* ------------------------------------------------------------------ *)

\* The primary key of table pixels is (x, y).
KeyOf(r) == <<r.x, r.y>>

\* jsonb_to_recordset: the row a batch entry proposes for insertion.
RowStamped(e) ==
    [x |-> e.x, y |-> e.y, color |-> e.color, painter |-> e.painter,
     painter_guild |-> e.painter_guild, time |-> now]
RowOf(e) ==
    [x |-> e.x, y |-> e.y, color |-> e.color, painter |-> e.painter,
     painter_guild |-> e.painter_guild, time |-> ParseTimestamp(e.time)]

\* INSERT ... ON CONFLICT (x, y) DO UPDATE rejects the whole statement
\* ("command cannot affect row a second time") when two of the proposed
\* rows have the same key.
UpsertRejects(batch) ==
    \E i, j \in 1 .. Len(batch) : i < j /\ KeyOf(batch[i]) = KeyOf(batch[j])

\* INSERT ... ON CONFLICT (x, y) DO UPDATE SET painter, painter_guild,
\* color, time = excluded.*: the table after the statement.
Upsert(rows, batch) ==
    IF UpsertRejects(batch) THEN rows
    ELSE {r \in rows : \A i \in 1 .. Len(batch) : KeyOf(batch[i]) # KeyOf(r)}
         \cup {RowOf(batch[i]) : i \in 1 .. Len(batch)}

\* SELECT * FROM pixels names no order: the rows come in any order.
Fetch(rows) ==
    {q \in [1 .. Cardinality(rows) -> rows] :
        \A i, j \in 1 .. Cardinality(rows) : i # j => q[i] # q[j]}

(* ------------------------------------------------------------------ *)
(* fill_in_pixels                                                      *)
(* ------------------------------------------------------------------ *)

\* The entry fill_in_pixels stores for a fetched row.
HydratedEntry(r) ==
    [color |-> r.color, painter |-> r.painter,
     painter_guild |-> r.painter_guild, time |-> r.time]

\* The for loop over the fetched rows, on the ledger.
RECURSIVE FillLedger(_, _)
FillLedger(pd, colors) ==
    IF colors = <<>> THEN pd
    ELSE FillLedger(SetLedger(pd, Head(colors).x, Head(colors).y,
                              HydratedEntry(Head(colors))),
                    Tail(colors))

\* Lines 87..89 for one fetched row: a row of colour 31 is skipped, any
\* other paints its cell.
PaintRowAlways(px, r) == [px EXCEPT ![CellOf(r.x, r.y)] = Colors(r.color)]
PaintRow(px, r) ==
    IF r.color = BlankColor THEN px
    ELSE [px EXCEPT ![CellOf(r.x, r.y)] = Colors(r.color)]

\* The for loop over the fetched rows, on the canvas.
RECURSIVE FillCanvas(_, _)
FillCanvas(px, colors) ==
    IF colors = <<>> THEN px
    ELSE FillCanvas(PaintRow(px, Head(colors)), Tail(colors))

(* ------------------------------------------------------------------ *)
(* bulk_insert_loop, a tasks.loop: its iterations                      *)
(* ------------------------------------------------------------------ *)

\* Where the task is after an iteration that raised nothing: it sleeps
\* until the next iteration is due, unless stop() was called, and then it
\* ends.
IterationDone == IF stopping THEN "stopped" ELSE "sleeping"

\* bulk_insert up to its await: with an empty list the iteration is over,
\* otherwise pool.execute is called with the list itself.
AfterLock == IF batch_changes # <<>> THEN "execute" ELSE IterationDone

\* An iteration begins, neither waiting for an iteration that has not
\* finished nor taking the lock.
LoopIterateOverlapping ==
    /\ loop_pc \in {"starting", "sleeping", "backoff", "execute", "executing"}
    /\ filled_in' = TRUE
    /\ loop_pc' = IF ~filled_in THEN "fetch" ELSE AfterLock
    /\ hydration' = IF ~filled_in THEN "running" ELSE hydration
    /\ batch_lock' = (filled_in /\ AfterLock = "execute")
    /\ in_flight' = IF filled_in /\ AfterLock = "execute"
                    THEN in_flight + 1 ELSE in_flight
    /\ UNCHANGED <<now, pixels, pixel_data, batch_changes, sent, store,
                   buckets, reply, last_accept, last_applied, draws, in_fetch,
                   stopping>>
    /\ UNCHANGED view
    /\ UNCHANGED pending
    /\ UNCHANGED <<botvars, statsvars>>

\* An iteration begins: the first one of the task, the one after the
\* backoff that follows a connection error, or the one after the sleep
\* that follows an iteration which raised nothing, unless stop() was called
\* (see LoopStop).  With the flag unset it marks the cog filled in and
\* awaits the fetch of fill_in_pixels, otherwise it takes the lock and goes
\* on to bulk_insert.
LoopIterate ==
    /\ loop_pc \in {"starting", "backoff"} \/ (loop_pc = "sleeping" /\ ~stopping)
    /\ filled_in => ~batch_lock
    /\ filled_in' = TRUE
    /\ loop_pc' = IF ~filled_in THEN "fetch" ELSE AfterLock
    /\ hydration' = IF ~filled_in THEN "running" ELSE hydration
    /\ batch_lock' = (filled_in /\ AfterLock = "execute")
    /\ in_flight' = IF filled_in /\ AfterLock = "execute"
                    THEN in_flight + 1 ELSE in_flight
    /\ UNCHANGED <<now, pixels, pixel_data, batch_changes, sent, store,
                   buckets, reply, last_accept, last_applied, draws, in_fetch,
                   stopping>>
    /\ UNCHANGED view
    /\ UNCHANGED pending
    /\ UNCHANGED <<botvars, statsvars>>

\* The sleep between two iterations is over and stop() was called during
\* it: the task ends.
LoopStop ==
    /\ loop_pc = "sleeping"
    /\ stopping
    /\ loop_pc' = "stopped"
    /\ UNCHANGED <<now, pixels, pixel_data, batch_changes, filled_in, sent,
                   store, buckets, reply, last_accept, last_applied, draws,
                   in_fetch, batch_lock, in_flight, stopping, hydration>>
    /\ UNCHANGED view
    /\ UNCHANGED pending
    /\ UNCHANGED <<botvars, statsvars>>

\* The fetch returns: the rest of fill_in_pixels, then the lock and
\* bulk_insert up to its await.
FetchDone(colors) ==
    /\ loop_pc = "fetch"
    /\ ~batch_lock
    /\ pixel_data' = FillLedger(pixel_data, colors)
    /\ pixels' = FillCanvas(pixels, colors)
    /\ loop_pc' = AfterLock
    /\ hydration' = "done"
    /\ batch_lock' = (AfterLock = "execute")
    /\ in_flight' = IF AfterLock = "execute" THEN in_flight + 1 ELSE in_flight
    /\ in_fetch' = {}
    /\ UNCHANGED <<now, batch_changes, filled_in, sent, store, buckets, reply,
                   last_accept, last_applied, draws, stopping>>
    /\ UNCHANGED view
    /\ UNCHANGED pending
    /\ UNCHANGED <<botvars, statsvars>>

\* What the task does after an exception of the iteration: tasks.loop
\* waits and runs the iteration again after one of its valid exception
\* types (the connection errors added in __init__ among them), whether or
\* not stop() was called, and ends after any other.
AfterError(kind) == IF kind = "connection" THEN "backoff" ELSE "dead"
ErrorKinds == {"connection", "other"}

\* The fetch raises.
FetchFail(kind) ==
    /\ loop_pc = "fetch"
    /\ loop_pc' = AfterError(kind)
    /\ hydration' = "failed"
    /\ in_fetch' = {}
    /\ UNCHANGED <<now, pixels, pixel_data, batch_changes, filled_in, sent,
                   store, buckets, reply, last_accept, last_applied, draws,
                   batch_lock, in_flight, stopping>>
    /\ UNCHANGED view
    /\ UNCHANGED pending
    /\ UNCHANGED <<botvars, statsvars>>

\* pool.execute, while awaited, encodes its argument: the list as it is at
\* that moment goes to the database.
ExecEncode ==
    /\ loop_pc = "execute"
    /\ sent' = batch_changes
    /\ loop_pc' = "executing"
    /\ UNCHANGED <<now, pixels, pixel_data, batch_changes, filled_in, store,
                   buckets, reply, last_accept, last_applied, draws, in_fetch,
                   batch_lock, in_flight, stopping, hydration>>
    /\ UNCHANGED view
    /\ UNCHANGED pending
    /\ UNCHANGED <<botvars, statsvars>>

\* The list after bulk_insert's self._batch_changes.clear().
Cleared(batch, was_sent) == <<>>

\* The list after pool.execute raised: the exception leaves bulk_insert
\* before line 75, which a try/finally around the call would still run.
ClearedOnError(batch) == <<>>
KeptOnError(batch) == batch

\* The database answers.  A rejected statement raises in bulk_insert, which
\* ends the task; otherwise the rows are stored and the list is cleared.
\* Either way the lock of line 57 is released.
ExecDone ==
    /\ loop_pc = "executing"
    /\ IF UpsertRejects(sent)
       THEN /\ loop_pc' = AfterError("other")
            /\ batch_changes' = KeptOnError(batch_changes)
            /\ UNCHANGED <<store, last_applied>>
       ELSE /\ store' = Upsert(store, sent)
            /\ last_applied' = sent
            /\ batch_changes' = Cleared(batch_changes, sent)
            /\ loop_pc' = IterationDone
    /\ sent' = <<>>
    /\ batch_lock' = FALSE
    /\ in_flight' = in_flight - 1
    /\ UNCHANGED <<now, pixels, pixel_data, filled_in, buckets, reply,
                   last_accept, draws, in_fetch, stopping, hydration>>
    /\ UNCHANGED view
    /\ UNCHANGED pending
    /\ UNCHANGED <<botvars, statsvars>>

\* pool.execute raises: before the statement reached the database, or
\* (applied) after the database stored the rows when the answer is lost.
ExecFail(kind, applied) ==
    /\ loop_pc \in {"execute", "executing"}
    /\ applied => loop_pc = "executing" /\ ~UpsertRejects(sent)
    /\ IF applied
       THEN /\ store' = Upsert(store, sent)
            /\ last_applied' = sent
       ELSE UNCHANGED <<store, last_applied>>
    /\ batch_changes' = KeptOnError(batch_changes)
    /\ sent' = <<>>
    /\ loop_pc' = AfterError(kind)
    /\ batch_lock' = FALSE
    /\ in_flight' = in_flight - 1
    /\ UNCHANGED <<now, pixels, pixel_data, filled_in, buckets, reply,
                   last_accept, draws, in_fetch, stopping, hydration>>
    /\ UNCHANGED view
    /\ UNCHANGED pending
    /\ UNCHANGED <<botvars, statsvars>>

(* ------------------------------------------------------------------ *)
(* cog_unload                                                          *)
(* ------------------------------------------------------------------ *)

\* The framework takes the commands of the cog away and calls cog_unload,
\* once: the flag is reset and the task is asked to stop.
cog_unload ==
    /\ ~stopping
    /\ filled_in' = FALSE
    /\ stopping' = TRUE
    /\ UNCHANGED <<now, pixels, pixel_data, batch_changes, loop_pc, sent,
                   store, buckets, reply, last_accept, last_applied, draws,
                   in_fetch, batch_lock, in_flight, hydration>>
    /\ UNCHANGED view
    /\ UNCHANGED pending
    /\ UNCHANGED <<botvars, statsvars>>

(* ------------------------------------------------------------------ *)
(* view_canvas (lines 117..145): the window around a center.           *)
(* The canvas sides are parameters here, mx for self.max_x and my for  *)
(* self.max_y, because the window's arithmetic is checked on canvases  *)
(* of several sizes.  Only the geometry is kept: which cells the slice *)
(* takes and how many are padded on each edge.                         *)
(* ------------------------------------------------------------------ *)
MaxRadius == 100
DefaultRadius == 10
Wide == 12

Max(i, j) == IF i >= j THEN i ELSE j
Min(i, j) == IF i <= j THEN i ELSE j

\* Line 118: the centers that are not turned away.
CenterAccepted(mx, my, x, y) == 0 <= x /\ x <= mx /\ 0 <= y /\ y <= my

\* Line 120.
TooLargeInclusive(radius) == radius >= MaxRadius
TooLarge(radius) == radius > MaxRadius

\* a[lo:hi] on an axis of n elements, for 0 <= lo and 0 <= hi: numpy clips
\* both ends to the axis and an empty range is no error.
SliceLen(lo, hi, n) == Max(0, Min(hi, n) - Min(lo, n))

\* Lines 122..137.  self.pixels has max_x rows and max_y columns (line 44);
\* line 128 takes its rows by y and its columns by x.
Window(mx, my, x, y, radius) ==
    LET x_max == Min(mx, x + radius + 1)
        x_min == Max(0, x - radius)
        y_max == Min(my, y + radius + 1)
        y_min == Max(0, y - radius)
    IN  [x_min  |-> x_min,
         y_min  |-> y_min,
         rows   |-> SliceLen(y_min, y_max, mx),
         cols   |-> SliceLen(x_min, x_max, my),
         top    |-> Max(0, radius - y),
         bottom |-> Max(0, y + radius - my - 1),
         left   |-> Max(0, radius - x),
         right  |-> Max(0, x + radius - mx - 1)]

NoWindow ==
    [x_min |-> 0, y_min |-> 0, rows |-> 0, cols |-> 0,
     top |-> 0, bottom |-> 0, left |-> 0, right |-> 0]

\* What the call does: the two refusals, then the picture.  cv2.resize
\* (line 139) raises on an image without rows or without columns, and
\* cog_command_error answers nothing for that.
ViewOutcome(mx, my, x, y, radius) ==
    LET w == Window(mx, my, x, y, radius)
    IN  IF ~CenterAccepted(mx, my, x, y) THEN "OutOfBounds"
        ELSE IF TooLarge(radius) THEN "RadiusTooLarge"
        ELSE IF w.top + w.rows + w.bottom = 0 \/ w.left + w.cols + w.right = 0
             THEN "Error"
        ELSE "Rendered"

ViewResult(mx, my, x, y, radius) ==
    LET o == ViewOutcome(mx, my, x, y, radius)
    IN  [max_x |-> mx, max_y |-> my, x |-> x, y |-> y, radius |-> radius,
         outcome |-> o,
         window |-> IF o \in {"Rendered", "Error"}
                    THEN Window(mx, my, x, y, radius) ELSE NoWindow]

NoView ==
    [max_x |-> max_x, max_y |-> max_y, x |-> 0, y |-> 0, radius |-> 0,
     outcome |-> "none", window |-> NoWindow]

\* self.pixels after line 141 has drawn the marker of the center into img:
\* numpy.pad and cv2.resize each return a new array, so img shares no
\* memory with self.pixels and the canvas is as it was.
CanvasAfterMarkInPlace(px, x, y) ==
    [c \in DOMAIN px |-> IF c = <<y, x>> THEN BlankColor - px[c] ELSE px[c]]
CanvasAfterMark(px, x, y) == px

view_canvas(mx, my, x, y, radius) ==
    /\ view' = ViewResult(mx, my, x, y, radius)
    /\ pixels' = IF ViewOutcome(mx, my, x, y, radius) = "Rendered"
                 THEN CanvasAfterMark(pixels, x, y) ELSE pixels
    /\ UNCHANGED <<now, pixel_data, batch_changes, filled_in, loop_pc,
                   sent, store, buckets, reply, last_accept, last_applied,
                   draws, in_fetch, batch_lock, in_flight, stopping, hydration>>
    /\ UNCHANGED pending
    /\ UNCHANGED <<botvars, statsvars>>

\* The command "full map" (lines 192..198): numpy.pad copies the canvas
\* into a new array with a border and the picture is sent.  Its cooldown
\* has buckets of its own, which no other command reads.
full_map ==
    /\ ~stopping
    /\ reply' = "FullMap"
    /\ UNCHANGED <<now, pixels, pixel_data, batch_changes, filled_in, loop_pc,
                   sent, store, buckets, last_accept, last_applied, draws,
                   in_fetch, batch_lock, in_flight, stopping, hydration, view>>
    /\ UNCHANGED pending
    /\ UNCHANGED <<botvars, statsvars>>

\* The canvases, centers and radii the window is computed for.
ViewSizes == {<<max_x, max_y>>, <<Wide, Wide>>}
ViewCenters(n) == {-1, 0, 1, n - 1, n}
ViewRadii == {0, 1, DefaultRadius, MaxRadius, MaxRadius + 1}

(* ------------------------------------------------------------------ *)
(* bot.py: BeepBoopFox.process_commands, the blacklist and the spam     *)
(* control                                                              *)
(* ------------------------------------------------------------------ *)
SpamRate == 3
SpamPer == 6
SpamStrikes == 5
MaxMsgTime == 8
MsgSteps == {4, 7}

\* The authors and guilds of the messages; "none" is a direct message
\* (ctx.guild is None).  Owner is the author with id self.owner_id.
Owner == "owner"
Authors == {Owner, "u"}
BotGuilds == {"none", "g", "gbad"}
Messages == [author : Authors, guild : BotGuilds, command : BOOLEAN]
InitBlacklists == {{}, {"gbad"}}

\* commands.CooldownMapping.from_cooldown(3, 6.0, BucketType.user): one
\* bucket [window, tokens] per author, updated as Cooldown.update_rate_limit
\* does; retry_after is 0 when the call is let through.
NewSpamBucket == [window |-> 0, tokens |-> SpamRate]
SpamTokens(b, current) ==
    IF current > b.window + SpamPer THEN SpamRate ELSE b.tokens
RetryAfter(b, current) ==
    IF SpamTokens(b, current) = 0 THEN SpamPer - (current - b.window) ELSE 0
SpamUpdate(b, current) ==
    [window |-> IF SpamTokens(b, current) = SpamRate THEN current ELSE b.window,
     tokens |-> IF SpamTokens(b, current) = 0 THEN 0
                ELSE SpamTokens(b, current) - 1]

\* Lines 277..281: the author or the guild of the message is blacklisted.
BlacklistedAuthorOnly(m) == m.author \in blacklist
Blacklisted(m) ==
    \/ m.author \in blacklist
    \/ (m.guild # "none" /\ m.guild \in blacklist)

\* Line 297: self._auto_spam_count.pop(author_id, None).
AfterPassKept(count, a) == count
AfterPass(count, a) == [count EXCEPT ![a] = 0]

\* process_commands up to its first await after get_context: the await of
\* add_to_blacklist (whose put enters the id before it saves the file) or
\* of invoke.
process_commands(m) ==
    /\ IF ~m.command
       THEN /\ outcome' = "NoCommand"
            /\ UNCHANGED <<spam_control, auto_spam_count, blacklist, saving>>
       ELSE IF Blacklisted(m)
       THEN /\ outcome' = "Ignored"
            /\ UNCHANGED <<spam_control, auto_spam_count, blacklist, saving>>
       ELSE /\ spam_control' =
                   [spam_control EXCEPT ![m.author] = SpamUpdate(@, msg_time)]
            /\ IF RetryAfter(spam_control[m.author], msg_time) # 0
                  /\ m.author # Owner
               THEN /\ auto_spam_count' =
                           [auto_spam_count EXCEPT ![m.author] = @ + 1]
                    /\ IF auto_spam_count[m.author] + 1 >= SpamStrikes
                       THEN /\ blacklist' = blacklist \cup {m.author}
                            /\ saving' = saving \cup {m.author}
                            /\ outcome' = "Blocked"
                       ELSE /\ outcome' = "RateLimited"
                            /\ UNCHANGED <<blacklist, saving>>
               ELSE /\ auto_spam_count' = AfterPass(auto_spam_count, m.author)
                    /\ outcome' = "Invoked"
                    /\ UNCHANGED <<blacklist, saving>>
    /\ UNCHANGED <<msg_time, pixelvars, statsvars>>

\* Lines 291..292: add_to_blacklist has returned; the counter of the author
\* is deleted and the block is reported.
blacklist_saved(a) ==
    /\ a \in saving
    /\ saving' = saving \ {a}
    /\ auto_spam_count' = [auto_spam_count EXCEPT ![a] = 0]
    /\ UNCHANGED <<msg_time, spam_control, blacklist, outcome, pixelvars, statsvars>>

\* Time passes between two messages.
MsgAdvance(d) ==
    /\ msg_time + d <= MaxMsgTime
    /\ msg_time' = msg_time + d
    /\ UNCHANGED <<spam_control, auto_spam_count, blacklist, saving, outcome,
                   pixelvars, statsvars>>

(* ------------------------------------------------------------------ *)
(* cogs/stats.py: the batch of command records and its flush            *)
(* ------------------------------------------------------------------ *)
MaxRecords == 3
MaxRows == 2
Records == 1 .. MaxRecords

\* One more row, or one more successful insert, for each record of a batch.
CountIn(f, batch) ==
    [r \in Records |->
        f[r] + Cardinality({i \in DOMAIN batch : batch[i] = r})]

\* tasks.loop after an iteration that raised: PostgresConnectionError is
\* the one registered type (line 79), any other exception ends the task.
StatsAfterError(kind) == IF kind = "connection" THEN "backoff" ELSE "dead"

\* register_command (lines 117..142) for the next command: with the lock
\* free and nobody waiting the record is appended at once, otherwise the
\* caller waits for the lock in the order of arrival.
register_command ==
    /\ ~stats_stopping
    /\ registered < MaxRecords
    /\ registered' = registered + 1
    /\ IF ~stats_lock /\ lock_waiters = <<>>
       THEN /\ data_batch' = Append(data_batch, registered + 1)
            /\ UNCHANGED lock_waiters
       ELSE /\ lock_waiters' = Append(lock_waiters, registered + 1)
            /\ UNCHANGED data_batch
    /\ UNCHANGED <<stats_lock, stats_pc, stats_sent, stats_stopping, inserts,
                   stored, pixelvars, botvars>>

\* The first waiter gets the released lock and appends its record.
register_resume ==
    /\ ~stats_lock
    /\ lock_waiters # <<>>
    /\ data_batch' = Append(data_batch, Head(lock_waiters))
    /\ lock_waiters' = Tail(lock_waiters)
    /\ UNCHANGED <<stats_lock, stats_pc, stats_sent, stats_stopping,
                   registered, inserts, stored, pixelvars, botvars>>

\* bulk_insert_loop (lines 107..110) up to the await in bulk_insert (lines
\* 88..101): the lock is taken and a non-empty batch is sent.  The loop
\* looks at stop() only after the sleep that follows a successful
\* iteration.
bulk_insert_loop ==
    /\ stats_pc \in {"starting", "sleeping", "backoff"}
    /\ stats_pc = "sleeping" => ~stats_stopping
    /\ ~stats_lock
    /\ lock_waiters = <<>>
    /\ IF data_batch = <<>>
       THEN /\ stats_pc' = "sleeping"
            /\ UNCHANGED <<stats_lock, stats_sent>>
       ELSE /\ stats_pc' = "executing"
            /\ stats_lock' = TRUE
            /\ stats_sent' = data_batch
    /\ UNCHANGED <<data_batch, lock_waiters, stats_stopping, registered,
                   inserts, stored, pixelvars, botvars>>

\* pool.execute has returned: the rows are in the table, the batch is
\* cleared (line 101) and the lock released.
bulk_insert_done ==
    /\ stats_pc = "executing"
    /\ stored' = CountIn(stored, stats_sent)
    /\ inserts' = CountIn(inserts, stats_sent)
    /\ data_batch' = <<>>
    /\ stats_sent' = <<>>
    /\ stats_lock' = FALSE
    /\ stats_pc' = "sleeping"
    /\ UNCHANGED <<lock_waiters, stats_stopping, registered, pixelvars, botvars>>

\* pool.execute has raised, with the statement applied or not: the batch
\* stays as it is and the lock is released.  The rows of one record are
\* followed up to MaxRows.
bulk_insert_failed(kind, applied) ==
    /\ stats_pc = "executing"
    /\ applied => \A i \in DOMAIN stats_sent : stored[stats_sent[i]] < MaxRows
    /\ stored' = IF applied THEN CountIn(stored, stats_sent) ELSE stored
    /\ stats_sent' = <<>>
    /\ stats_lock' = FALSE
    /\ stats_pc' = StatsAfterError(kind)
    /\ UNCHANGED <<data_batch, lock_waiters, stats_stopping, registered,
                   inserts, pixelvars, botvars>>

\* Stats.cog_unload (lines 103..105): bulk_insert_loop.stop().
stats_cog_unload ==
    /\ ~stats_stopping
    /\ stats_stopping' = TRUE
    /\ UNCHANGED <<data_batch, stats_lock, lock_waiters, stats_pc, stats_sent,
                   registered, inserts, stored, pixelvars, botvars>>

\* The sleep after a successful iteration is over and stop() was called.
bulk_insert_loop_stop ==
    /\ stats_pc = "sleeping"
    /\ stats_stopping
    /\ stats_pc' = "stopped"
    /\ UNCHANGED <<data_batch, stats_lock, lock_waiters, stats_sent,
                   stats_stopping, registered, inserts, stored, pixelvars,
                   botvars>>

(* ------------------------------------------------------------------ *)
(* The system                                                          *)
(* ------------------------------------------------------------------ *)

\* The table as an earlier run of the program may have left it: empty, or
\* with a painted cell and a cell of the blank colour.
OldRow(x, color) ==
    [x |-> x, y |-> 0, color |-> color, painter |-> "old",
     painter_guild |-> "g0", time |-> 0]
InitStores == {{}, {OldRow(0, 0), OldRow(1, BlankColor)}}

\* PixelWar.__init__, and the database as it finds it.
PixelInit ==
    /\ now = 0
    /\ pixels = BlankCanvas
    /\ pixel_data = <<>>
    /\ batch_changes = <<>>
    /\ filled_in = FALSE
    /\ loop_pc = "starting"
    /\ sent = <<>>
    /\ store \in InitStores
    /\ buckets = [a \in Actors |-> NewBucket]
    /\ reply = "none"
    /\ last_accept = [a \in Actors |-> -1]
    /\ last_applied = <<>>
    /\ draws = 0
    /\ in_fetch = {}
    /\ batch_lock = FALSE
    /\ in_flight = 0
    /\ stopping = FALSE
    /\ hydration = "none"
    /\ view = NoView
    /\ pending = {}

\* BeepBoopFox.__init__ (lines 80..93), with the file blacklist.json as it
\* finds it.
BotInit(ids) ==
    /\ msg_time = 0
    /\ spam_control = [a \in Authors |-> NewSpamBucket]
    /\ auto_spam_count = [a \in Authors |-> 0]
    /\ blacklist = ids
    /\ saving = {}
    /\ outcome = "none"

\* Stats.__init__ (lines 74..82) and an empty table commands.
StatsInit ==
    /\ data_batch = <<>>
    /\ stats_lock = FALSE
    /\ lock_waiters = <<>>
    /\ stats_pc = "starting"
    /\ stats_sent = <<>>
    /\ stats_stopping = FALSE
    /\ registered = 0
    /\ inserts = [r \in Records |-> 0]
    /\ stored = [r \in Records |-> 0]

Init == PixelInit /\ BotInit({}) /\ StatsInit

\* The steps of the program while the cog is loaded: the commands, the
\* clock and the task.
NextLoaded ==
    \/ \E a \in Actors, d \in DrawArgs : draw_canvas(a, d[1], d[2], d[3])
    \/ \E c \in InspectArgs : check_pixel(c[1], c[2])
    \/ \E d \in TimeSteps : Advance(d)
    \/ LoopIterate
    \/ \E colors \in Fetch(store) : FetchDone(colors)
    \/ \E kind \in ErrorKinds : FetchFail(kind)
    \/ ExecEncode
    \/ ExecDone
    \/ \E kind \in ErrorKinds, applied \in BOOLEAN : ExecFail(kind, applied)

\* The program up to the unloading of the cog: no command is dispatched to
\* the cog afterwards, so this is every behaviour of the commands.
SpecLoaded == Init /\ [][NextLoaded]_vars

\* All steps: the cog may be unloaded at any moment, and the task goes on
\* until it ends.
Next ==
    \/ NextLoaded
    \/ LoopStop
    \/ cog_unload

Spec == Init /\ [][Next]_vars

\* view_canvas alone, on every canvas, center and radius of the sets above.
NextView ==
    \E s \in ViewSizes :
        \E x \in ViewCenters(s[1]), y \in ViewCenters(s[2]), radius \in ViewRadii :
            view_canvas(s[1], s[2], x, y, radius)

SpecView == Init /\ [][NextView]_vars

\* The commands alone, without the task: draw with its notification,
\* inspect, the two views and the clock.
ViewArgs == {<<0, 0, 0>>, <<1, 0, DefaultRadius>>, <<max_x, 0, 1>>}

NextCommands ==
    \/ \E a \in Actors, d \in DrawArgs : draw_canvas(a, d[1], d[2], d[3])
    \/ \E c \in InspectArgs : check_pixel(c[1], c[2])
    \/ \E v \in ViewArgs : view_canvas(max_x, max_y, v[1], v[2], v[3])
    \/ full_map
    \/ \E d \in TimeSteps : Advance(d)
    \/ \E p \in pending : draw_canvas_ready(p[1], p[2])

SpecCommands == Init /\ [][NextCommands]_vars

\* The command dispatch of the bot: messages, the completion of a block
\* and the clock of the messages.
NextBot ==
    \/ \E m \in Messages : process_commands(m)
    \/ \E a \in Authors : blacklist_saved(a)
    \/ \E d \in MsgSteps : MsgAdvance(d)

InitBot == PixelInit /\ (\E ids \in InitBlacklists : BotInit(ids)) /\ StatsInit

SpecBot == InitBot /\ [][NextBot]_vars

\* The statistics cog: commands being registered, the flush loop and the
\* unloading of the cog.
NextStats ==
    \/ register_command
    \/ register_resume
    \/ bulk_insert_loop
    \/ bulk_insert_done
    \/ \E kind \in {"connection", "other"}, applied \in BOOLEAN :
           bulk_insert_failed(kind, applied)
    \/ stats_cog_unload
    \/ bulk_insert_loop_stop

SpecStats == Init /\ [][NextStats]_vars

(* ------------------------------------------------------------------ *)
(* Properties                                                          *)
(* ------------------------------------------------------------------ *)

\* A cell of the canvas: 0 <= x < max_x and 0 <= y < max_y.
InCanvas(x, y) == 0 <= x /\ x < max_x /\ 0 <= y /\ y < max_y

\* An index of the palette.
InPalette(color) == 0 <= color /\ color < PaletteSize

\* This step is the draw command of a with arguments d, let through by the
\* cooldown.
DrawStep(a, d) == draw_canvas(a, d[1], d[2], d[3]) /\ ~RateLimited(buckets[a], now)

\* C1: an accepted draw of palette colour c by actor a on a cell of the
\* canvas leaves the ledger such that inspecting that cell, as the next
\* operation, reports colour c and painter a.
C1_DrawThenInspect ==
    [][\A a \in Actors, d \in DrawArgs :
         (reply' = "Ok" /\ InCanvas(d[1], d[2]) /\ InPalette(d[3]) /\ DrawStep(a, d))
         => /\ Len(Inspect(pixel_data', d[1], d[2])) = 1
            /\ Inspect(pixel_data', d[1], d[2])[1].color = d[3]
            /\ Inspect(pixel_data', d[1], d[2])[1].painter = a]_vars

\* A draw by a on a cell of the canvas has just been accepted.
C1_Witness ==
    /\ reply = "Ok"
    /\ \E k \in DOMAIN pixel_data :
          /\ InCanvas(k[1], k[2])
          /\ InPalette(pixel_data[k].color)
          /\ pixel_data[k].painter \in Actors
          /\ pixel_data[k].time = now
          /\ last_accept[pixel_data[k].painter] = now

C3_InvalidColor ==
    [][\A a \in Actors, d \in DrawArgs :
         (InCanvas(d[1], d[2]) /\ ~InPalette(d[3]) /\ DrawStep(a, d))
         => (reply' = "InvalidColor" /\ pixels' = pixels)]_vars

\* C4: a draw with coordinates outside the canvas answers OutOfBounds and
\* leaves the length of the pending-write list as it was.
C4_OutOfBounds ==
    [][\A a \in Actors, d \in DrawArgs :
         (~InCanvas(d[1], d[2]) /\ DrawStep(a, d))
         => (reply' = "OutOfBounds" /\ Len(batch_changes') = Len(batch_changes))]_vars

\* C5: a draw with coordinates outside the canvas changes no cell of the
\* canvas, no ledger entry, no ledger key and no pending write.
C5_OutOfBoundsFrame ==
    [][\A a \in Actors, d \in DrawArgs :
         (~InCanvas(d[1], d[2]) /\ draw_canvas(a, d[1], d[2], d[3]))
         => (pixels' = pixels /\ pixel_data' = pixel_data
             /\ batch_changes' = batch_changes)]_vars

\* The entries of a list.
Entries(q) == {q[i] : i \in 1 .. Len(q)}

\* An entry of a draw on a cell of the canvas with a colour of the palette.
WellFormed(e) == InCanvas(e.x, e.y) /\ InPalette(e.color)

\* C6: an entry leaves the pending-write list only if it was passed to the
\* batch upsert: no step removes from a list of draws on the canvas, with
\* palette colours, an entry that the outstanding statement does not carry.
C6_NoLostWrite ==
    [][(\A e \in Entries(batch_changes) : WellFormed(e))
       => \A e \in Entries(batch_changes) :
             e \notin Entries(batch_changes') => e \in Entries(sent)]_vars

\* C7: when hydration completes, every cell of the canvas drawn with a
\* palette colour while the fetch was awaited keeps the ledger entry and the
\* canvas colour the draw gave it.
C7_HydrationKeepsDraws ==
    [][(loop_pc = "fetch" /\ loop_pc' # "fetch")
       => \A k \in in_fetch :
             (InCanvas(k[1], k[2]) /\ InPalette(pixel_data[k].color))
             => /\ pixel_data'[k] = pixel_data[k]
                /\ pixels'[CellOf(k[1], k[2])] = pixels[CellOf(k[1], k[2])]]_vars

\* C8: when a flush stores a batch that holds every draw accepted so far,
\* all of them on cells of the canvas with palette colours, a fresh instance hydrated from the table has, on every cell those draws
\* wrote, the colour the canvas has, and the blank colour on every cell no
\* stored row addresses.
C8_RoundTrip ==
    [][(loop_pc = "executing" /\ loop_pc' = "sleeping" /\ batch_changes' = <<>>
        /\ sent = batch_changes /\ Len(sent) = draws
        /\ \A e \in Entries(sent) : WellFormed(e))
       => \A q \in Fetch(store') :
             /\ \A e \in Entries(sent) :
                   FillCanvas(BlankCanvas, q)[CellOf(e.x, e.y)]
                       = pixels[CellOf(e.x, e.y)]
             /\ \A c \in Rows \X Cols :
                   (\A r \in store' : CellOf(r.x, r.y) # c)
                       => FillCanvas(BlankCanvas, q)[c] = BlankColor]_vars

\* C9: the batch the table applied last, applied once more, leaves the
\* table as it is.
C9_UpsertIdempotent ==
    last_applied # <<>> => Upsert(store, last_applied) = store

\* The table has applied a batch, the answer was lost, and the same batch
\* is on its way to the table again.
C9_Witness ==
    /\ loop_pc = "executing"
    /\ sent # <<>>
    /\ sent = last_applied
    /\ store = Upsert(store, sent)

\* The last entry of the batch for the key of row r.
LastFor(batch, r) ==
    batch[CHOOSE i \in 1 .. Len(batch) :
              /\ KeyOf(batch[i]) = KeyOf(r)
              /\ \A j \in 1 .. Len(batch) : KeyOf(batch[j]) = KeyOf(r) => j <= i]

\* C10: when the table answers a batch of draws on the canvas, with palette
\* colours, that holds two entries for one cell, the flush succeeds and the row of each cell of the batch holds the
\* colour, painter, guild and time of the last entry for that cell.
C10_LastEntryWins ==
    [][(ExecDone /\ UpsertRejects(sent) /\ \A e \in Entries(sent) : WellFormed(e))
       => /\ loop_pc' = "sleeping"
          /\ batch_changes' = <<>>
          /\ \A e \in Entries(sent) : RowOf(LastFor(sent, e)) \in store']_vars

C12_FlushFailureNotFatal ==
    [][(loop_pc \in {"execute", "executing"} /\ ~UpsertRejects(batch_changes)
        /\ \A e \in Entries(batch_changes) : WellFormed(e))
       => (loop_pc' \notin {"dead"})]_vars

\* C13: once the fetch of the hydration has failed, no upsert is issued and
\* no draw is accepted.
C13_HydrationFailureAborts ==
    [][hydration = "failed"
       => /\ loop_pc' \notin {"execute", "executing"}
          /\ \A a \in Actors, d \in DrawArgs :
                (InCanvas(d[1], d[2]) /\ InPalette(d[3])
                 /\ draw_canvas(a, d[1], d[2], d[3])) => reply' # "Ok"]_vars

\* C14: the fetch of the hydration is issued by the first iteration of the
\* task, and a step issues it only if it was never issued before.
C14_OneHydration ==
    [][/\ (loop_pc # "fetch" /\ loop_pc' = "fetch") => hydration = "none"
       /\ (loop_pc = "starting" /\ loop_pc' # "starting") => loop_pc' = "fetch"]_vars

\* C15: an upsert is outstanding only after the hydration has completed,
\* and a completed hydration stays completed.
C15_FlushOnlyWhenHydrated ==
    [][(\A e \in Entries(batch_changes') : WellFormed(e))
       => /\ loop_pc' \in {"execute", "executing"} => hydration' = "done"
          /\ hydration = "done" => hydration' = "done"]_vars

\* C16: at most one pool.execute call of bulk_insert is outstanding.
C16_OneFlushInFlight == in_flight <= 1

\* An upsert is outstanding, under the lock, with its statement encoded.
C16_Witness ==
    /\ in_flight = 1
    /\ batch_lock
    /\ loop_pc = "executing"
    /\ sent # <<>>

\* The entry draw_canvas queued for the ledger entry e of cell k.
QueuedFor(k, e) == BatchEntry(e.painter, k[1], k[2], e.color, e.time)

\* C17: every accepted draw reaches the table.  Only pending entries are
\* ever sent, so in every state, when all draws were on cells of the canvas
\* with palette colours, the last accepted draw of a cell is still pending
\* or is the stored row of its cell.
C17_PendingOrStored ==
    ((\A k \in DOMAIN pixel_data :
         InCanvas(k[1], k[2]) /\ InPalette(pixel_data[k].color))
     /\ \A r \in store : WellFormed(r))
    => \A k \in DOMAIN pixel_data :
          pixel_data[k].painter \in Actors
          => \/ QueuedFor(k, pixel_data[k]) \in Entries(batch_changes)
             \/ RowOf(QueuedFor(k, pixel_data[k])) \in store

\* C18: the entries pending when the cog is unloaded are flushed before the
\* task ends: when the task has ended, no draw on a cell of the canvas with
\* a palette colour is left pending.
C18_FlushedAtShutdown ==
    loop_pc = "stopped" => \A e \in Entries(batch_changes) : ~WellFormed(e)

\* C19: a draw answered InvalidColor or OutOfBounds leaves the cooldown
\* bucket of its actor as it was.
C19_RejectedDrawNotCharged ==
    [][\A a \in Actors, d \in DrawArgs :
         (reply' \in {"InvalidColor", "OutOfBounds"}
          /\ draw_canvas(a, d[1], d[2], d[3]))
         => buckets'[a] = buckets[a]]_vars

\* C20: a draw stopped by the cooldown changes neither the canvas, nor the
\* ledger, nor the pending-write list, nor the cooldown bucket of its actor.
C20_CooldownFrame ==
    [][\A a \in Actors, d \in DrawArgs :
         (reply' = "CooldownActive" /\ RateLimited(buckets[a], now)
          /\ draw_canvas(a, d[1], d[2], d[3]))
         => /\ pixels' = pixels
            /\ pixel_data' = pixel_data
            /\ batch_changes' = batch_changes
            /\ buckets'[a] = buckets[a]
            /\ last_accept' = last_accept]_vars

\* A draw has just been stopped by the cooldown, within DrawPer of an
\* accepted draw of an actor whose bucket is empty.
C20_Witness ==
    /\ reply = "CooldownActive"
    /\ \E a \in Actors :
          /\ last_accept[a] >= 0
          /\ now - last_accept[a] < DrawPer
          /\ RateLimited(buckets[a], now)

\* C21: inspect never answers "absent" for a cell that has a row in the
\* table pixels: whenever check_pixel(x, y) answers that nobody has drawn
\* there, the table holds no row of key (x, y).
C21_AbsentMeansNoRow ==
    [][\A c \in InspectArgs :
          (reply' = "Absent" /\ check_pixel(c[1], c[2]))
              => ~(\E r \in store : KeyOf(r) = <<c[1], c[2]>>)]_vars

\* The center of the last view_canvas call lies on its canvas.
ViewInBounds ==
    /\ 0 <= view.x /\ view.x < view.max_x
    /\ 0 <= view.y /\ view.y < view.max_y

\* The last view_canvas call got as far as cutting its window.
ViewCut == view.outcome \in {"Rendered", "Error"}

\* C22: view_canvas answers OutOfBounds for every center outside
\* [0, max_x) x [0, max_y), x = max_x and y = max_y included, and cuts no
\* window then.
C22_OutOfBoundsRejected ==
    (view.outcome # "none" /\ ~ViewInBounds)
        => (view.outcome = "OutOfBounds" /\ view.window = NoWindow)

\* C23: with the center on the canvas, view_canvas answers RadiusTooLarge
\* exactly when radius > 100, and cuts no window then; radius 100 is let
\* through.
C23_RadiusLimit ==
    (view.outcome # "none" /\ ViewInBounds)
        => /\ (view.outcome = "RadiusTooLarge") <=> (view.radius > 100)
           /\ (view.outcome = "RadiusTooLarge") => (view.window = NoWindow)

C23_Witness ==
    /\ ViewInBounds
    /\ view.radius = 100
    /\ view.outcome = "Rendered"

\* C24: for a center on the canvas and a radius in 0..100, the slice and
\* its padding make a square of side 2*radius+1 with the center cell at
\* index radius on both axes.  (Stated on square canvases, where rows and
\* columns of self.pixels have the same length.)
C24_SquareWindow ==
    (ViewCut /\ ViewInBounds /\ view.max_x = view.max_y
        /\ view.radius \in 0..MaxRadius)
        => LET w == view.window
               side == 2 * view.radius + 1
           IN  /\ w.top + w.rows + w.bottom = side
               /\ w.left + w.cols + w.right = side
               /\ w.top + (view.y - w.y_min) = view.radius
               /\ w.left + (view.x - w.x_min) = view.radius

\* C25: with radius 0 and the center on the canvas, the slice is the one
\* center cell and nothing is padded on any edge.
C25_RadiusZero ==
    (ViewCut /\ ViewInBounds /\ view.radius = 0)
        => LET w == view.window
           IN  /\ w.rows = 1 /\ w.cols = 1
               /\ w.x_min = view.x /\ w.y_min = view.y
               /\ w.top = 0 /\ w.bottom = 0 /\ w.left = 0 /\ w.right = 0

\* C26: with radius 10 and the center on a corner of a canvas wider and
\* higher than 10 cells, the two edges beyond the canvas at that corner
\* are padded by the cells clipped there (10) and the other two by none.
C26_CornerPadding ==
    (ViewCut /\ view.radius = DefaultRadius
        /\ view.max_x > DefaultRadius /\ view.max_y > DefaultRadius
        /\ view.x \in {0, view.max_x - 1} /\ view.y \in {0, view.max_y - 1})
        => LET w == view.window
           IN  /\ w.left = (IF view.x = 0 THEN DefaultRadius ELSE 0)
               /\ w.right = (IF view.x = view.max_x - 1 THEN DefaultRadius ELSE 0)
               /\ w.top = (IF view.y = 0 THEN DefaultRadius ELSE 0)
               /\ w.bottom = (IF view.y = view.max_y - 1 THEN DefaultRadius ELSE 0)

\* C27: an accepted draw on a cell (x, y) of the canvas changes that cell
\* only: every other cell of self.pixels keeps its colour, every other
\* ledger entry stays as it was, and check_pixel of any other cell reports
\* what it reported before.
C27_DrawFrame ==
    [][\A a \in Actors, d \in DrawArgs :
         (reply' = "Ok" /\ InCanvas(d[1], d[2]) /\ DrawStep(a, d))
         => /\ \A c \in DOMAIN pixels :
                  c # <<d[2], d[1]>> => pixels'[c] = pixels[c]
            /\ DOMAIN pixel_data' = (DOMAIN pixel_data) \cup {<<d[1], d[2]>>}
            /\ \A k \in DOMAIN pixel_data :
                  k # <<d[1], d[2]>>
                  => /\ pixel_data'[k] = pixel_data[k]
                     /\ Inspect(pixel_data', k[1], k[2])
                            = Inspect(pixel_data, k[1], k[2])]_vars

\* A draw on a cell of the canvas has just been accepted while another
\* cell still has the entry of an earlier draw.
C27_Witness ==
    /\ reply = "Ok"
    /\ \E k1 \in DOMAIN pixel_data, k2 \in DOMAIN pixel_data :
          /\ k1 # k2
          /\ InCanvas(k1[1], k1[2])
          /\ pixel_data[k1].painter \in Actors
          /\ pixel_data[k1].time = now
          /\ last_accept[pixel_data[k1].painter] = now
          /\ pixel_data[k2].painter \in Actors
          /\ pixel_data[k2].painter # pixel_data[k1].painter

\* C28: the ledger never loses an entry, and the entry of a cell is that of
\* the last accepted draw on it: an entry a draw on a cell of the canvas
\* with a palette colour has written is replaced only by a later accepted
\* draw on the same cell, the one this step has just queued.
C28_LastWriterWins ==
    [][\A k \in DOMAIN pixel_data :
         /\ k \in DOMAIN pixel_data'
         /\ (/\ pixel_data[k].painter \in Actors
             /\ InCanvas(k[1], k[2])
             /\ InPalette(pixel_data[k].color)
             /\ pixel_data'[k] # pixel_data[k])
            => /\ Len(batch_changes') = Len(batch_changes) + 1
               /\ batch_changes'[Len(batch_changes')]
                      = QueuedFor(k, pixel_data'[k])]_vars

\* C29: the pending-write list grows by exactly one entry per accepted
\* draw, at its end, and the entry carries the x, y, colour, painter, guild
\* and time of that draw; the entries queued before stay where and what
\* they were; nothing but an accepted draw and the clear after a flush
\* changes the list.
C29_QueueOrder ==
    [][/\ \A a \in Actors, d \in DrawArgs :
            (reply' = "Ok" /\ DrawStep(a, d))
            => LET n == Len(batch_changes')
               IN  /\ n = Len(batch_changes) + 1
                   /\ SubSeq(batch_changes', 1, n - 1) = batch_changes
                   /\ batch_changes'[n].x = d[1]
                   /\ batch_changes'[n].y = d[2]
                   /\ batch_changes'[n].color = d[3]
                   /\ batch_changes'[n].painter = a
                   /\ batch_changes'[n].painter_guild = GuildOf(a)
                   /\ ParseTimestamp(batch_changes'[n].time) = now
       /\ (batch_changes' # batch_changes)
            => \/ (draws' = draws + 1 /\ Len(batch_changes') = Len(batch_changes) + 1)
               \/ (loop_pc = "executing" /\ batch_changes' = <<>>)]_vars

\* Two accepted draws on one cell are queued one behind the other.
C29_Witness ==
    /\ reply = "Ok"
    /\ Len(batch_changes) = 2
    /\ batch_changes[1].x = batch_changes[2].x
    /\ batch_changes[1].y = batch_changes[2].y
    /\ batch_changes[1].painter # batch_changes[2].painter
    /\ ParseTimestamp(batch_changes[1].time) < ParseTimestamp(batch_changes[2].time)

\* C30: a draw never waits for a flush: while a pool.execute call has not
\* returned, every draw the cooldown lets through and the body accepts can
\* run at once, and it colours its cell, queues its entry and writes its
\* ledger entry while the call stays outstanding.
C30_EnqueueNeverBlocks ==
    (in_flight > 0 /\ ~stopping /\ draws < MaxDraws)
        => \A a \in Actors, d \in DrawArgs :
              (~RateLimited(buckets[a], now) /\ DrawOutcome(d[1], d[2], d[3]) = "Ok")
              => ENABLED (/\ draw_canvas(a, d[1], d[2], d[3])
                          /\ Len(batch_changes') = Len(batch_changes) + 1
                          /\ pixels'[CellOf(d[1], d[2])] = Colors(d[3])
                          /\ pixel_data'[<<d[1], d[2]>>].time = now
                          /\ in_flight' = in_flight)

\* A draw was accepted after the outstanding pool.execute call was given
\* its argument: its entry is queued behind the entries that were sent.
C30_Witness ==
    /\ loop_pc = "executing"
    /\ in_flight = 1
    /\ reply = "Ok"
    /\ Len(batch_changes) > Len(sent)
    /\ ParseTimestamp(batch_changes[Len(batch_changes)].time) = now

\* C31: when hydration completes, every fetched row on a cell of the canvas
\* has its ledger entry recorded; a row of the blank colour 31 leaves the
\* cell of the canvas as it was, a row of any other colour sets the cell to
\* the palette colour of that index.
C31_BlankRowNotPainted ==
    [][(loop_pc = "fetch" /\ hydration' = "done")
       => \A r \in store :
             InCanvas(r.x, r.y)
             => /\ <<r.x, r.y>> \in DOMAIN pixel_data'
                /\ pixel_data'[<<r.x, r.y>>] = HydratedEntry(r)
                /\ (r.color = 31) => (pixels'[<<r.y, r.x>>] = pixels[<<r.y, r.x>>])
                /\ (r.color # 31) => (pixels'[<<r.y, r.x>>] = Colors(r.color))]_vars

\* Hydration is done, and a cell that was drawn on before the rows arrived
\* has the entry of a stored row of colour 31 and still the drawn colour.
C31_Witness ==
    /\ hydration = "done"
    /\ \E k \in DOMAIN pixel_data :
          /\ InCanvas(k[1], k[2])
          /\ pixel_data[k].color = 31
          /\ pixel_data[k].painter \notin Actors
          /\ pixels[<<k[2], k[1]>>] # 31

\* C32: the lock of the flush is not held across the round trip to the
\* database: in no state is self._batch_lock held while a pool.execute call
\* has not returned.
C32_LockNotHeldAcrossExecute == ~(batch_lock /\ in_flight > 0)

\* C33: inspect, view-window and view-full are read-only: a step of
\* check_pixel, view_canvas or full_map changes no cell of the canvas, no
\* key and no entry of the ledger, and not the pending-write list.
C33_ReadOnly ==
    [][(\/ \E c \in InspectArgs : check_pixel(c[1], c[2])
        \/ \E v \in ViewArgs : view_canvas(max_x, max_y, v[1], v[2], v[3])
        \/ full_map)
       => /\ pixels' = pixels
          /\ pixel_data' = pixel_data
          /\ batch_changes' = batch_changes]_vars

\* A window has been rendered of a canvas that holds a drawn cell, with
\* the draw's entry in the ledger and in the list.
C33_Witness ==
    /\ view.outcome = "Rendered"
    /\ pixels # BlankCanvas
    /\ pixel_data # <<>>
    /\ batch_changes # <<>>

\* C34: the canvas and the ledger agree in every state: a cell whose ledger
\* entry has a colour c other than blank is a cell of the canvas and holds
\* the palette colour of c, and a cell of the canvas that is not blank has
\* a ledger entry under its own (x, y).
C34_CacheLedgerAgree ==
    /\ \A k \in DOMAIN pixel_data :
          (pixel_data[k].color # 31)
          => /\ InCanvas(k[1], k[2])
             /\ pixels[<<k[2], k[1]>>] = Colors(pixel_data[k].color)
    /\ \A c \in DOMAIN pixels :
          (pixels[c] # 31) => (<<c[2], c[1]>> \in DOMAIN pixel_data)

\* C35: an accepted draw is one step for every other operation: the step
\* that counts the draw as accepted is the step that colours the cell,
\* appends the draw's entry to the list and stores its ledger entry, and
\* the canvas is changed by no other step than such a draw or the
\* completion of hydration.
C35_DrawAtomic ==
    [][/\ (draws' # draws)
          => /\ draws' = draws + 1
             /\ Len(batch_changes') = Len(batch_changes) + 1
             /\ LET q == batch_changes'[Len(batch_changes')]
                IN  /\ pixels'[CellOf(q.x, q.y)] = Colors(q.color)
                    /\ <<q.x, q.y>> \in DOMAIN pixel_data'
                    /\ pixel_data'[<<q.x, q.y>>].color = q.color
                    /\ pixel_data'[<<q.x, q.y>>].painter = q.painter
                    /\ pixel_data'[<<q.x, q.y>>].time = ParseTimestamp(q.time)
       /\ (pixels' # pixels)
          => \/ draws' = draws + 1
             \/ (loop_pc = "fetch" /\ hydration' = "done")]_vars

\* A draw has just been accepted while the task is in the middle of an
\* iteration, between two of its awaits.
C35_Witness ==
    /\ reply = "Ok"
    /\ loop_pc \in {"fetch", "executing"}
    /\ batch_changes # <<>>
    /\ ParseTimestamp(batch_changes[Len(batch_changes)].time) = now
    /\ last_accept[batch_changes[Len(batch_changes)].painter] = now

\* C36: on a canvas with max_x # max_y every cell with 0 <= x < max_x and
\* 0 <= y < max_y can be drawn on: a draw with a palette colour that the
\* cooldown lets through is accepted and colours the cell of row y and
\* column x that view_canvas slices for (x, y).
C36_EveryCellDrawable ==
    [][\A a \in Actors, d \in DrawArgs :
         (InCanvas(d[1], d[2]) /\ InPalette(d[3]) /\ DrawStep(a, d))
         => /\ reply' = "Ok"
            /\ <<d[2], d[1]>> \in DOMAIN pixels'
            /\ pixels'[<<d[2], d[1]>>] = Colors(d[3])]_vars

\* C37: the message that the next stroke is ready goes out no earlier than
\* 300 s after its draw was accepted, and at that moment a new draw of the
\* same actor is not turned away by the cooldown (stated for an actor whose
\* bucket was last charged by an accepted draw, all draws so far being on
\* cells of the canvas with palette colours).
C37_ReadyMeansReady ==
    [][\A p \in pending :
         (/\ draw_canvas_ready(p[1], p[2])
          /\ buckets[p[1]].window = last_accept[p[1]]
          /\ \A e \in Entries(batch_changes) : WellFormed(e))
         => /\ now >= p[2] + 300
            /\ ~RateLimited(buckets[p[1]], now)]_vars

\* C38: for an author who is not the owner and not blacklisted, a command
\* that triggers the spam limit is not invoked and counts one more trigger
\* in a row; the 5th in a row, and no earlier one, puts the author on the
\* blacklist, and the counter is back at zero when the block is completed;
\* a command that passes the limit is invoked and sets the counter to zero.
C38_SpamStreak ==
    [][/\ \A m \in Messages :
            (m.command /\ m.author # Owner /\ m.author \notin blacklist
                /\ (m.guild = "none" \/ m.guild \notin blacklist)
                /\ process_commands(m))
            => IF RetryAfter(spam_control[m.author], msg_time) # 0
               THEN /\ outcome' # "Invoked"
                    /\ IF auto_spam_count[m.author] = 4
                       THEN m.author \in blacklist'
                       ELSE /\ blacklist' = blacklist
                            /\ auto_spam_count'[m.author]
                                   = auto_spam_count[m.author] + 1
               ELSE /\ outcome' = "Invoked"
                    /\ auto_spam_count'[m.author] = 0
                    /\ blacklist' = blacklist
       /\ \A a \in Authors :
            (a \in saving /\ a \notin saving') => auto_spam_count'[a] = 0]_vars

\* An author has been blocked by the spam control and the block is
\* completed.
C38_Witness ==
    /\ "u" \in blacklist
    /\ saving = {}
    /\ auto_spam_count["u"] = 0
    /\ spam_control["u"].tokens = 0

\* C39: a message of a blacklisted author or from a blacklisted guild
\* invokes no command and leaves the spam bucket and the counter as they
\* were, and the owner is never on the blacklist through the spam control.
C39_BlacklistedIgnored ==
    [][/\ \A m \in Messages :
            (m.command
                /\ (m.author \in blacklist
                    \/ (m.guild # "none" /\ m.guild \in blacklist))
                /\ process_commands(m))
            => /\ outcome' = "Ignored"
               /\ auto_spam_count' = auto_spam_count
               /\ spam_control' = spam_control
               /\ blacklist' = blacklist
       /\ (Owner \notin blacklist) => (Owner \notin blacklist')]_vars

\* A message of an author whom the spam control has blocked was ignored.
C39_Witness ==
    /\ outcome = "Ignored"
    /\ blacklist = {"u"}

\* C40: no record of the statistics batch is lost or inserted twice: no
\* record is in two successful batch inserts, and once the flush loop has
\* stopped every registered record has been in one.
C40_ExactlyOneInsert ==
    /\ \A r \in Records : inserts[r] <= 1
    /\ stats_pc = "stopped" => \A r \in 1 .. registered : inserts[r] = 1

\* What the lock does give: a record registered during a flush is not in
\* that flush and not cleared by it.
C40_LockKeepsLateRecords ==
    [][bulk_insert_done =>
          (/\ stats_sent = data_batch
           /\ \A i \in DOMAIN lock_waiters :
                  /\ inserts'[lock_waiters[i]] = 0
                  /\ lock_waiters'[i] = lock_waiters[i])]_vars

====
